---- MODULE Spec2Model ----
(***************************************************************************)
(* A model of triku (feature selection for single-cell count matrices):    *)
(* the entry point triku() of src/triku/tl/triku.py and the functions of   *)
(* src/triku/tl/_triku_functions.py.                                       *)
(*                                                                         *)
(* Numbers.  Counts are integers.  Probabilities and distances are exact   *)
(* rationals kept as integer numerators over a common denominator, so the  *)
(* comparisons the code makes on floats are made here on integers.         *)
(***************************************************************************)
EXTENDS Integers, Sequences, FiniteSets, TLC

VARIABLES
    pc,               \* position of the call of triku()
    object_triku,     \* the object handed to triku(): type, X, var_names, uns
    knn_arg,          \* the argument knn (None or an integer)
    use_adata_knn,    \* the argument use_adata_knn: "None", "True", "False"
    cfg_case,         \* the numeric configuration arguments, see CfgCases
    n_procs,          \* n_procs as resolved by lines 86-92 (None before)
    knn,              \* knn as resolved by lines 113 / 129 (None before)
    knn_array_shape,  \* shape of knn_array once neighbors are resolved
    stages,           \* the pipeline steps entered so far, in order
    error,            \* the exception the call ended with, "" if none
    \* lines 173-178 of triku(): the background correction
    array_emd,            \* per-gene distance of the real matrix
    array_emd_random,     \* per-gene distance of the randomized matrix, or NoArray
    array_emd_corrected,  \* the corrected distance, NoArray before line 173
    \* lines 183-192 of triku(): the selection
    array_emd_subt_median,  \* per-gene detrended distance
    n_features,             \* the argument n_features (None or an integer)
    s,                      \* the argument s, in units of 1/SDen
    dist_cutoff,            \* the cutoff of lines 184-188, NoCutoff before
    is_highly_variable,     \* the flags of line 192, NoArray before
    sel_pc,                 \* position in lines 183-192
    \* return_knn_expression
    arr_expression,   \* the count matrix handed in (cells x genes)
    knn_indices,      \* the neighbor index matrix handed in (cells x columns)
    knn_expression,   \* the matrix returned, NoArray before the call
    \* the stochastic steps: create_random_count_matrix, return_knn_indices
    np_random,        \* the state of numpy's global generator np.random
    rand_matrix,      \* the count matrix the steps are called on
    run1,             \* the first call made: what it was and what it did
    run2,             \* the second call made
    \* parallel_emd_calculation
    array_counts,     \* the count matrix handed in (cells x genes)
    array_knn_counts, \* the knn-aggregated matrix handed in (cells x genes)
    emd_args,         \* the arguments knn, min_knn, n_divisions, n_procs
    numpy_casts,      \* what numpy does with line 189, see calculate_emd
    ppc,              \* position of the call of parallel_emd_calculation
    idx_gene,         \* the gene the serial loop of line 245 is at
    ray_up,           \* ray has been initialized and not shut down
    ray_handles,      \* the shared matrices put into ray and not yet released
    tasks,            \* per gene: "none", "pending" or "finished"
    task_out,         \* per gene: what its remote task ended with
    completed,        \* the genes in the order their tasks finished
    calls_made,       \* the pairs <<gene, function>> called so far
    return_objs,      \* the list return_objs of line 243 / 260
    emd_out,          \* what parallel_emd_calculation returned or raised
    \* compute_conv_idx / apply_convolution_read_counts
    conv_counts,      \* the count vector of one gene (one entry per cell)
    conv_knn,         \* the argument knn
    conv_out,         \* what compute_conv_idx returned, NoConv before the call
    \* subtract_median
    med_x,            \* the argument x: the mean expression of every gene
    med_y,            \* the argument y: the distance of every gene
    n_windows,        \* the argument n_windows
    y_median_array,   \* per gene: the median subtracted from it, doubled
    med_bins,         \* per gene: the windows whose mask held it
    y_adjust          \* what subtract_median returned, doubled; NoArray before

pvars == <<pc, object_triku, knn_arg, use_adata_knn, cfg_case, n_procs, knn,
           knn_array_shape, stages, error>>
corrvars == <<array_emd, array_emd_random, array_emd_corrected>>
selvars == <<array_emd_subt_median, n_features, s, dist_cutoff,
             is_highly_variable, sel_pc>>

kvars == <<arr_expression, knn_indices, knn_expression>>

rvars == <<np_random, rand_matrix, run1, run2>>

evars == <<array_counts, array_knn_counts, emd_args, numpy_casts, ppc, idx_gene,
           ray_up, ray_handles, tasks, task_out, completed, calls_made,
           return_objs, emd_out>>

cvars == <<conv_counts, conv_knn, conv_out>>

mvars == <<med_x, med_y, n_windows, y_median_array, med_bins, y_adjust>>

vars == <<pvars, corrvars, selvars, kvars, rvars, evars, cvars, mvars>>

(***************************************************************************)
(* Bounds of the model.                                                    *)
(***************************************************************************)
MaxCells == 2        \* triku(): cells of the input matrix, 1..MaxCells
MaxKnn == 3          \* neighbor counts tried, 1..MaxKnn

None == -1           \* Python's None for an argument that is otherwise >= 0
GenesP == {1, 2}     \* triku(): the genes (columns) of the input matrix
CpuCount == 2        \* what get_cpu_count() answers

Range(f) == {f[i] : i \in DOMAIN f}

RECURSIVE SumSeq(_)
SumSeq(q) == IF q = <<>> THEN 0 ELSE Head(q) + SumSeq(Tail(q))

Max2(a, b) == IF a >= b THEN a ELSE b
Min2(a, b) == IF a <= b THEN a ELSE b

\* all matrices of nc rows (cells) and ng columns (genes) with entries in vals
Matrices(nc, ng, vals) == [1..nc -> [1..ng -> vals]]

\* matrix.sum(0): the total of column g
ColSum(m, g) == SumSeq([i \in 1..Len(m) |-> m[i][g]])

NoArray == <<>>      \* an array variable that holds no array (yet)

(***************************************************************************)
(* Each part of the program has its own variables; a part that is not      *)
(* running holds the values below, and the steps of the other parts leave  *)
(* them alone.                                                             *)
(***************************************************************************)
PIdle ==
    /\ pc = "idle"
    /\ object_triku = [type |-> "none"]
    /\ knn_arg = None
    /\ use_adata_knn = "None"
    /\ cfg_case = "procs_one"
    /\ n_procs = None
    /\ knn = None
    /\ knn_array_shape = <<0, 0>>
    /\ stages = <<>>
    /\ error = ""

CorrIdle ==
    /\ array_emd = NoArray
    /\ array_emd_random = NoArray
    /\ array_emd_corrected = NoArray

SelIdle ==
    /\ array_emd_subt_median = NoArray
    /\ n_features = None
    /\ s = 0
    /\ dist_cutoff = 0
    /\ is_highly_variable = NoArray
    /\ sel_pc = "idle"

KIdle ==
    /\ arr_expression = NoArray
    /\ knn_indices = NoArray
    /\ knn_expression = NoArray

NoCall == [fn |-> "none"]

RIdle ==
    /\ np_random = 0
    /\ rand_matrix = NoArray
    /\ run1 = NoCall
    /\ run2 = NoCall

EIdle ==
    /\ array_counts = NoArray
    /\ array_knn_counts = NoArray
    /\ emd_args = [knn |-> 0, min_knn |-> 0, n_divisions |-> 1, n_procs |-> 1]
    /\ numpy_casts = FALSE
    /\ ppc = "idle"
    /\ idx_gene = 0
    /\ ray_up = FALSE
    /\ ray_handles = {}
    /\ tasks = <<>>
    /\ task_out = <<>>
    /\ completed = <<>>
    /\ calls_made = {}
    /\ return_objs = <<>>
    /\ emd_out = [kind |-> "none"]

NoConv == [x |-> <<>>, y |-> [num |-> <<>>, den |-> 0]]

CIdle ==
    /\ conv_counts = NoArray
    /\ conv_knn = 0
    /\ conv_out = NoConv

MIdle ==
    /\ med_x = NoArray
    /\ med_y = NoArray
    /\ n_windows = 0
    /\ y_median_array = NoArray
    /\ med_bins = NoArray
    /\ y_adjust = NoArray

FrameP == UNCHANGED <<corrvars, selvars, kvars, rvars, evars, cvars, mvars>>
FrameCorr == UNCHANGED <<pvars, selvars, kvars, rvars, evars, cvars, mvars>>
FrameSel == UNCHANGED <<pvars, corrvars, kvars, rvars, evars, cvars, mvars>>
FrameK == UNCHANGED <<pvars, corrvars, selvars, rvars, evars, cvars, mvars>>
FrameR == UNCHANGED <<pvars, corrvars, selvars, kvars, evars, cvars, mvars>>
FrameE == UNCHANGED <<pvars, corrvars, selvars, kvars, rvars, cvars, mvars>>
FrameC == UNCHANGED <<pvars, corrvars, selvars, kvars, rvars, evars, mvars>>
FrameM == UNCHANGED <<pvars, corrvars, selvars, kvars, rvars, evars, cvars>>

(***************************************************************************)
(* triku(), lines 77-149.                                                  *)
(***************************************************************************)

\* int(0.5 * n_cells ** 0.5): the largest k with 2k <= sqrt(n), that is 4k^2 <= n
DefaultKnn(n_cells) == CHOOSE k \in 0..n_cells :
                          4 * k * k <= n_cells /\ 4 * (k + 1) * (k + 1) > n_cells

\* The numeric configuration arguments n_features, knn, n_windows, n_procs,
\* random_state, n_comps: "nonint" when one of them is neither None nor an int;
\* otherwise what n_procs was given as.
CfgCases == {"nonint", "procs_none", "procs_one", "procs_many"}

\* lines 86-92
ResolveProcs(c) ==
    CASE c = "procs_none" -> Max2(1, CpuCount - 1)
      [] c = "procs_many" -> Max2(1, CpuCount - 1)   \* CpuCount + 1 asked for
      [] OTHER            -> 1

\* get_arr_counts_and_genes: the checks of the input the spec (section 7) and
\* the tests give it.  "" when the object is accepted.
get_arr_counts_and_genes(obj) ==
    CASE obj.type \notin {"AnnData", "DataFrame"} -> "TypeError"
      [] \E i \in 1..Len(obj.X) : \E g \in GenesP : obj.X[i][g] < 0
                                                    -> "BaseException"
      [] \E g \in GenesP : ColSum(obj.X, g) = 0 -> "BaseException"
      [] \E g, h \in GenesP : g # h /\ obj.var_names[g] = obj.var_names[h]
                                                    -> "BaseException"
      [] OTHER -> ""

Objects ==
    { [type |-> t, X |-> x, var_names |-> vn, n_neighbors |-> nn] :
        t \in {"AnnData", "DataFrame", "ndarray"},
        x \in UNION {Matrices(nc, Cardinality(GenesP), {-1, 0, 1}) : nc \in 1..MaxCells},
        vn \in {<<"g1", "g2">>, <<"g1", "g1">>},
        nn \in {None} \cup 1..MaxKnn }

PInit ==
    /\ pc = "basic_checks"
    /\ object_triku \in {o \in Objects : o.type # "AnnData" => o.n_neighbors = None}
    /\ knn_arg \in {None} \cup 1..MaxKnn
    /\ use_adata_knn \in {"None", "True", "False"}
    /\ cfg_case \in CfgCases
    /\ n_procs = None
    /\ knn = None
    /\ knn_array_shape = <<0, 0>>
    /\ stages = <<>>
    /\ error = ""

Raise(e) == /\ pc' = "raised"
            /\ error' = e

AfterBasicChecks_unvalidated == "neighbors"

\* the position after the basic checks of lines 77-93: line 96
AfterBasicChecks == "get_arr_counts"

\* lines 77-93: the assertion on the numeric arguments, use_adata_knn for a
\* DataFrame, the number of processes
BasicChecks ==
    /\ pc = "basic_checks"
    /\ IF cfg_case = "nonint"
       THEN /\ Raise("AssertionError")
            /\ UNCHANGED <<use_adata_knn, n_procs>>
       ELSE /\ use_adata_knn' = IF object_triku.type = "DataFrame"
                                THEN "False" ELSE use_adata_knn
            /\ n_procs' = ResolveProcs(cfg_case)
            /\ pc' = AfterBasicChecks
            /\ UNCHANGED error
    /\ UNCHANGED <<object_triku, knn_arg, cfg_case, knn, knn_array_shape, stages>>
    /\ FrameP

\* lines 95-97
GetArrCounts ==
    /\ pc = "get_arr_counts"
    /\ LET e == get_arr_counts_and_genes(object_triku)
       IN IF e # "" THEN Raise(e)
          ELSE /\ pc' = "neighbors"
               /\ UNCHANGED error
    /\ UNCHANGED <<object_triku, knn_arg, use_adata_knn, cfg_case, n_procs, knn,
                   knn_array_shape, stages>>
    /\ FrameP

\* line 110-112: the neighbors of the AnnData object are used
UsesAdataKnn ==
    /\ object_triku.type = "AnnData"
    /\ use_adata_knn \in {"None", "True"}
    /\ object_triku.n_neighbors # None

\* lines 108-134.  With the object's neighbors (lines 113-125) the top knn
\* columns of the argsort are taken, a slice that holds at most n_cells
\* columns, and the column of own indices is put in front.  Otherwise
\* return_knn_indices is called with knn, or with the default of line 129;
\* what PCA and nearest_neighbors do with a knn they cannot serve is theirs:
\* they raise or they answer.
ResolveNeighbors ==
    /\ pc = "neighbors"
    /\ stages' = Append(stages, "neighbors")
    /\ LET n_cells == Len(object_triku.X) IN
       IF UsesAdataKnn
       THEN /\ knn' = object_triku.n_neighbors
            /\ knn_array_shape' = <<n_cells, Min2(knn', n_cells) + 1>>
            /\ pc' = "knn_expression"
            /\ UNCHANGED error
       ELSE /\ knn' = IF knn_arg = None THEN DefaultKnn(n_cells) ELSE knn_arg
            /\ \/ /\ knn' < n_cells
                  /\ knn_array_shape' = <<n_cells, knn'>>
                  /\ pc' = "knn_expression"
                  /\ UNCHANGED error
               \/ /\ knn' >= n_cells
                  /\ \/ /\ knn_array_shape' = <<n_cells, knn'>>
                        /\ pc' = "knn_expression"
                        /\ UNCHANGED error
                     \/ /\ Raise("ValueError")
                        /\ UNCHANGED knn_array_shape
    /\ UNCHANGED <<object_triku, knn_arg, use_adata_knn, cfg_case, n_procs>>
    /\ FrameP

\* lines 136-138: return_knn_expression(arr_counts, knn_array)
KnnExpression ==
    /\ pc = "knn_expression"
    /\ stages' = Append(stages, "knn_expression")
    /\ pc' = "parallel_emd"
    /\ UNCHANGED <<object_triku, knn_arg, use_adata_knn, cfg_case, n_procs, knn,
                   knn_array_shape, error>>
    /\ FrameP

\* lines 147-149: parallel_emd_calculation is called without n_divisions, which
\* its signature (_triku_functions.py line 223) requires: the call raises
\* before the body of parallel_emd_calculation is entered.
ParallelEmd ==
    /\ pc = "parallel_emd"
    /\ Raise("TypeError")
    /\ UNCHANGED <<object_triku, knn_arg, use_adata_knn, cfg_case, n_procs, knn,
                   knn_array_shape, stages>>
    /\ FrameP

Init == PInit /\ CorrIdle /\ SelIdle /\ KIdle /\ RIdle /\ EIdle /\ CIdle /\ MIdle

Next == BasicChecks \/ GetArrCounts \/ ResolveNeighbors \/ KnnExpression \/ ParallelEmd

Spec == Init /\ [][Next]_vars

n_cells_in == Len(object_triku.X)

\* the input has a negative count, a gene of total count zero, duplicate gene
\* identifiers, or is of an unsupported type
InvalidInput ==
    \/ object_triku.type = "ndarray"
    \/ \E i \in 1..n_cells_in : \E g \in GenesP : object_triku.X[i][g] < 0
    \/ \E g \in GenesP : \A i \in 1..n_cells_in : object_triku.X[i][g] = 0
    \/ \E g \in GenesP : \E h \in GenesP \ {g} :
          object_triku.var_names[g] = object_triku.var_names[h]

\* C2: a call of triku() on an invalid input enters no pipeline step
\* (neighbor resolution, knn aggregation, convolution/EMD): it is still in the
\* checks, or it has ended in an error.
C2_InvalidInputRejectedFirst ==
    InvalidInput =>
        /\ stages = <<>>
        /\ pc \in {"basic_checks", "get_arr_counts", "raised"}
        /\ pc = "raised" => error # ""

\* C2 witness: an invalid input with well-typed arguments has been rejected by
\* the check of the input.
C2_Witness ==
    /\ InvalidInput
    /\ cfg_case # "nonint"
    /\ pc = "raised"
    /\ error \in {"BaseException", "TypeError"}
    /\ stages = <<>>

\* the neighbor count the call asks for: n_neighbors of the object's neighbors,
\* the argument knn, or the default of line 129
RequestedKnn ==
    IF UsesAdataKnn THEN object_triku.n_neighbors
    ELSE IF knn_arg = None THEN DefaultKnn(n_cells_in) ELSE knn_arg

\* C10: a call that asks for at least as many neighbors as there are cells
\* enters no pipeline step.
C10_KnnTooLargeRejectedFirst ==
    RequestedKnn >= n_cells_in => stages = <<>>

(***************************************************************************)
(* triku(), lines 173-178: the background correction.  Distances are       *)
(* nonnegative numbers; array_emd_random is None (NoArray) when            *)
(* apply_background_correction is false (lines 154, 157).                  *)
(***************************************************************************)
MaxDist == 3         \* distances tried, 0..MaxDist
GenesT == 3          \* genes of the arrays of lines 173-192

Arrays(ng, vals) == [1..ng -> vals]

CorrectEmd_unclamped(emd, emd_random) ==
    IF emd_random # NoArray
    THEN [g \in 1..Len(emd) |-> emd[g] - emd_random[g]]
    ELSE emd

\* lines 174-178
CorrectEmd(emd, emd_random) ==
    IF emd_random # NoArray
    THEN [g \in 1..Len(emd) |->
             IF emd[g] - emd_random[g] < 0 THEN 0 ELSE emd[g] - emd_random[g]]
    ELSE emd

CorrInit ==
    /\ array_emd \in Arrays(GenesT, 0..MaxDist)
    /\ array_emd_random \in {NoArray} \cup Arrays(GenesT, 0..MaxDist)
    /\ array_emd_corrected = NoArray

ApplyCorrection ==
    /\ array_emd_corrected = NoArray
    /\ array_emd_corrected' = CorrectEmd(array_emd, array_emd_random)
    /\ UNCHANGED <<array_emd, array_emd_random>>
    /\ FrameCorr

InitCorr == PIdle /\ CorrInit /\ SelIdle /\ KIdle /\ RIdle /\ EIdle /\ CIdle /\ MIdle

NextCorr == ApplyCorrection

SpecCorr == InitCorr /\ [][NextCorr]_vars

SDen == 2            \* the values of s tried are k / SDen, k in -SDen..SDen

Abs(x) == IF x < 0 THEN -x ELSE x

SetMax(S) == CHOOSE x \in S : \A z \in S : z <= x
SetMin(S) == CHOOSE x \in S : \A z \in S : x <= z

\* np.sort(y): the value at (1-based) rank r is the v of y with fewer than r
\* entries below it and at least r entries not above it
SortArr(y) ==
    [r \in 1..Len(y) |->
        CHOOSE v \in Range(y) :
            /\ Cardinality({j \in 1..Len(y) : y[j] < v}) < r
            /\ Cardinality({j \in 1..Len(y) : y[j] <= v}) >= r]

\* lines 307-317: list_d, the squared distance of every point (u, v) of the
\* sorted curve, u = 0..n-1, to the line of slope m = (max_y - min_y) / len(y)
\* through (0, min_y).  With D = max_y - min_y and n = len(y) the distance is
\* (n (v - min_y) - D u)^2 / (n^2 + D^2); the numerators are kept, the
\* denominator being the same for every point.
list_d(y) ==
    LET n == Len(y)
        min_y == SetMin(Range(y))
        max_y == SetMax(Range(y))
        srt == SortArr(y)
    IN [i \in 1..n |->
          LET e == n * (srt[i] - min_y) - (max_y - min_y) * (i - 1) IN e * e]

RightmostFor_strict(sn) == sn > 0

\* line 326, the side the sign of s selects
RightmostFor(sn) == sn >= 0

\* lines 319-331, with s = sn / SDen
get_cutoff_curve(y, sn) ==
    LET d == list_d(y)
        max_d == SetMax(Range(d))
        s_idx == {i \in 1..Len(y) : SDen * d[i] >= (SDen - Abs(sn)) * max_d}
        max_d_idx == IF RightmostFor(sn) THEN SetMax(s_idx) ELSE SetMin(s_idx)
    IN SortArr(y)[max_d_idx]

\* line 188: np.sort(array_emd_subt_median)[- n_features]
NthLargest(y, nf) == SortArr(y)[Len(y) - nf + 1]

\* line 192: array_emd_subt_median > dist_cutoff
FlagsAbove(y, cutoff) == [g \in 1..Len(y) |-> y[g] > cutoff]

SelInit ==
    /\ array_emd_subt_median \in UNION {Arrays(n, 0..MaxDist) : n \in 1..GenesT}
    /\ n_features \in {None} \cup 1..Len(array_emd_subt_median)
    /\ s \in -SDen..SDen
    /\ dist_cutoff = 0
    /\ is_highly_variable = NoArray
    /\ sel_pc = "cutoff"

\* lines 184-189
SelectCutoff ==
    /\ sel_pc = "cutoff"
    /\ dist_cutoff' = IF n_features = None
                      THEN get_cutoff_curve(array_emd_subt_median, s)
                      ELSE NthLargest(array_emd_subt_median, n_features)
    /\ sel_pc' = "flags"
    /\ UNCHANGED <<array_emd_subt_median, n_features, s, is_highly_variable>>
    /\ FrameSel

\* line 192
SetFlags ==
    /\ sel_pc = "flags"
    /\ is_highly_variable' = FlagsAbove(array_emd_subt_median, dist_cutoff)
    /\ sel_pc' = "done"
    /\ UNCHANGED <<array_emd_subt_median, n_features, s, dist_cutoff>>
    /\ FrameSel

InitSel == PIdle /\ CorrIdle /\ SelInit /\ KIdle /\ RIdle /\ EIdle /\ CIdle /\ MIdle

NextSel == SelectCutoff \/ SetFlags

SpecSel == InitSel /\ [][NextSel]_vars

\* the genes flagged highly variable
Flagged == {g \in 1..Len(is_highly_variable) : is_highly_variable[g]}

Distinct(y) == \A g, h \in 1..Len(y) : g # h => y[g] # y[h]

\* the nf genes with the largest value of y (values pairwise distinct)
TopGenes(y, nf) ==
    {g \in 1..Len(y) : Cardinality({h \in 1..Len(y) : y[h] > y[g]}) < nf}

\* C1: with n_features given and pairwise distinct detrended distances, the
\* genes flagged are exactly the n_features genes of largest distance.
C1_ExactlyNFeatures ==
    (sel_pc = "done" /\ n_features # None /\ Distinct(array_emd_subt_median)) =>
        /\ Flagged = TopGenes(array_emd_subt_median, n_features)
        /\ Cardinality(Flagged) = n_features

\* the indices of the sorted curve whose distance to the line is at least
\* (1 - a / SDen) times the largest distance
NearMax(y, a) ==
    {i \in 1..Len(y) :
        SDen * list_d(y)[i] >= (SDen - a) * SetMax(Range(list_d(y)))}

LeftmostValue(y, a) == SortArr(y)[SetMin(NearMax(y, a))]
RightmostValue(y, a) == SortArr(y)[SetMax(NearMax(y, a))]

Selected(y, cutoff) == {g \in 1..Len(y) : y[g] > cutoff}

\* C9 as claimed: for every magnitude a in [0, 1], s = -a gives the value at
\* the leftmost point near the maximum and s = +a the value at the rightmost.
C9_SignSelectsSide ==
    (sel_pc = "done" /\ n_features = None) =>
        /\ s <= 0 => dist_cutoff = LeftmostValue(array_emd_subt_median, -s)
        /\ s >= 0 => dist_cutoff = RightmostValue(array_emd_subt_median, s)

\* C9 as amended: a negative s gives the leftmost point, and s >= 0 (zero
\* included) the rightmost; the cutoff of -a is at most the cutoff of +a and
\* the genes selected with -a include those selected with +a.
C9_SignSelectsSideAmended ==
    (sel_pc = "done" /\ n_features = None) =>
        LET y == array_emd_subt_median
            other == get_cutoff_curve(y, -s)
        IN /\ s < 0 => dist_cutoff = LeftmostValue(y, -s)
           /\ s >= 0 => dist_cutoff = RightmostValue(y, s)
           /\ s <= 0 => /\ dist_cutoff <= other
                        /\ Selected(y, other) \subseteq Flagged
           /\ s >= 0 => /\ other <= dist_cutoff
                        /\ Flagged \subseteq Selected(y, other)

\* C9 witness: a curve on which the leftmost and the rightmost point near the
\* maximum differ in value, cut with a negative s.
C9_Witness ==
    /\ sel_pc = "done" /\ n_features = None /\ s < 0
    /\ LeftmostValue(array_emd_subt_median, -s)
         < RightmostValue(array_emd_subt_median, -s)
    /\ Flagged # Selected(array_emd_subt_median,
                          get_cutoff_curve(array_emd_subt_median, -s))

(***************************************************************************)
(* return_knn_expression (_triku_functions.py lines 56-84).  Cells are     *)
(* numbered from 1 here, from 0 in the code.                               *)
(***************************************************************************)
MaxCount == 1        \* counts tried, 0..MaxCount
NbrCols == 2         \* columns of the neighbor index matrix, 1..NbrCols
ShapesK == {<<2, 2>>, <<3, 1>>}   \* the shapes (cells, genes) tried

\* sum of f[j] over the finite set S of indices
RECURSIVE SumOver(_, _)
SumOver(S, f) == IF S = {} THEN 0
                 ELSE LET j == CHOOSE z \in S : TRUE
                      IN f[j] + SumOver(S \ {j}, f)

MaskEntry_counted(idx, i, j) == Cardinality({c \in 1..Len(idx[i]) : idx[i][c] = j})

\* lines 73-75: the entry (i, j) of sparse_mask, set to 1 for every (i, j) that
\* a row i of knn_indices lists, however often
MaskEntry(idx, i, j) == IF \E c \in 1..Len(idx[i]) : idx[i][c] = j THEN 1 ELSE 0

sparse_mask(idx, n) == [i \in 1..n |-> [j \in 1..n |-> MaskEntry(idx, i, j)]]

\* line 78: sparse_mask.dot(arr_expression)
Dot(mask, arr) ==
    [i \in 1..Len(mask) |->
        [g \in 1..Len(arr[1]) |->
            SumOver(1..Len(arr), [j \in 1..Len(arr) |-> mask[i][j] * arr[j][g]])]]

\* lines 73-84
return_knn_expression(arr, idx) ==
    LET prod == Dot(sparse_mask(idx, Len(arr)), arr)
    IN [i \in 1..Len(arr) |->
          [g \in 1..Len(arr[1]) |-> IF arr[i][g] = 0 THEN 0 ELSE prod[i][g]]]

KInit ==
    /\ arr_expression \in UNION {Matrices(sh[1], sh[2], 0..MaxCount) : sh \in ShapesK}
    /\ knn_indices \in UNION {[1..Len(arr_expression) -> [1..k -> 1..Len(arr_expression)]] :
                                k \in 1..NbrCols}
    /\ knn_expression = NoArray

ReturnKnnExpression ==
    /\ knn_expression = NoArray
    /\ knn_expression' = return_knn_expression(arr_expression, knn_indices)
    /\ UNCHANGED <<arr_expression, knn_indices>>
    /\ FrameK

InitK == PIdle /\ CorrIdle /\ SelIdle /\ KInit /\ RIdle /\ EIdle /\ CIdle /\ MIdle

NextK == ReturnKnnExpression

SpecK == InitK /\ [][NextK]_vars

\* the cells that row i of the neighbor index matrix lists
NeighborSet(idx, i) == {idx[i][c] : c \in 1..Len(idx[i])}

\* C6: the entry (i, g) returned is 0 when cell i has no count of gene g, and
\* otherwise the sum of g's counts over the distinct cells that row i lists;
\* the count matrix handed in is not changed by the call.
C6_KnnExpression ==
    /\ [](knn_expression # NoArray =>
            \A i \in 1..Len(arr_expression) : \A g \in 1..Len(arr_expression[1]) :
                knn_expression[i][g] =
                    IF arr_expression[i][g] = 0 THEN 0
                    ELSE SumOver(NeighborSet(knn_indices, i),
                                 [j \in 1..Len(arr_expression) |-> arr_expression[j][g]]))
    /\ [][arr_expression' = arr_expression]_vars

\* C6 witness: the call has returned on a row that lists a cell twice and does
\* not list the own cell, for a gene the own cell and the listed cell express.
C6_Witness ==
    /\ knn_expression # NoArray
    /\ \E i \in 1..Len(arr_expression) : \E g \in 1..Len(arr_expression[1]) :
          /\ Len(knn_indices[i]) = 2
          /\ knn_indices[i][1] = knn_indices[i][2]
          /\ knn_indices[i][1] # i
          /\ arr_expression[i][g] > 0
          /\ knn_expression[i][g] > 0
          /\ \E h \in 1..Len(arr_expression) :
                arr_expression[h][g] = 0 /\ knn_expression[h][g] = 0

(***************************************************************************)
(* The stochastic steps: create_random_count_matrix (lines 87-114) and     *)
(* return_knn_indices (lines 27-53).  numpy's global generator np.random   *)
(* is a deterministic generator with a state: seeding sets the state, a    *)
(* draw reads it and advances it.  A small linear congruential generator   *)
(* stands for it.                                                          *)
(***************************************************************************)
MaxSeed == 2         \* seeds tried, 0..MaxSeed
ShapesR == {<<2, 2>>, <<3, 2>>}   \* the shapes (cells, genes) tried
RngStates == 0..15

\* np.random.seed(seed)
SeedState(seed) == seed % 16

\* the state after one draw
RngStep(st) == (5 * st + 3) % 16

\* the integer in low..high-1 a draw in state st gives, as randint(low, high)
RandInt(st, low, high) == low + ((RngStep(st) \div 2) % (high - low))

\* np.random.randint(n, size=k) from state st: the k values drawn, each a cell
\* (1..n here, 0..n-1 in the code), and the state left
RECURSIVE RandIntSeq(_, _, _)
RandIntSeq(st, n, k) ==
    IF k = 0 THEN [values |-> <<>>, state |-> st]
    ELSE LET rest == RandIntSeq(RngStep(st), n, k - 1)
         IN [values |-> <<RandInt(st, 0, n) + 1>> \o rest.values,
             state |-> rest.state]

\* line 94: matrix.sum(0)
n_reads_per_gene(matrix) == [g \in 1..Len(matrix[1]) |-> ColSum(matrix, g)]

\* idx_counts when the loop of line 107 reaches gene (line 111, accumulated)
IdxCounts(n_reads, gene) == SumSeq(SubSeq(n_reads, 1, gene - 1))

CountsOfGene_unshifted(random_counts, n_reads, gene) ==
    SubSeq(random_counts, IdxCounts(n_reads, gene) + 1, n_reads[gene])

\* line 108: random_counts[idx_counts: idx_counts + n_reads_per_gene[gene]]
CountsOfGene(random_counts, n_reads, gene) ==
    SubSeq(random_counts, IdxCounts(n_reads, gene) + 1,
           IdxCounts(n_reads, gene) + n_reads[gene])

\* line 109: np.bincount(counts_gene, minlength=n_cells)
BinCountCells(counts_gene, n) ==
    [c \in 1..n |-> Cardinality({k \in 1..Len(counts_gene) : counts_gene[k] = c})]

\* lines 94-114, called with the generator in state st: the matrix returned
\* (cells x genes, after the transposition of line 113), the values drawn and
\* the state the generator is left in
create_random_count_matrix(matrix, seed, st) ==
    LET n_reads == n_reads_per_gene(matrix)
        n == Len(matrix)
        drawn == RandIntSeq(SeedState(seed), n, SumSeq(n_reads))
        rows == [g \in 1..Len(n_reads) |->
                    BinCountCells(CountsOfGene(drawn.values, n_reads, g), n)]
    IN [result |-> [c \in 1..n |-> [g \in 1..Len(n_reads) |-> rows[g][c]]],
        draws |-> drawn.values,
        state |-> drawn.state]

\* lines 36-53 with return_random true, called with the generator in state st.
\* The PCA of line 36 takes random_state and leaves np.random alone.  Line 41
\* asks np.random.randint for one integer in n_cells..n_cells*knn-1 (no size is
\* given): with n_cells * knn <= n_cells it raises ValueError without a draw;
\* otherwise one value is drawn from the global generator as it stands, and
\* .reshape on the integer drawn raises AttributeError.
return_knn_indices_random(array, k, seed, st) ==
    LET n == Len(array) IN
    IF n * k <= n
    THEN [result |-> "ValueError", draws |-> <<>>, state |-> st]
    ELSE [result |-> "AttributeError",
          draws |-> <<RandInt(st, n, n * k)>>,
          state |-> RngStep(st)]

\* lines 36-53 with return_random false: PCA and nearest_neighbors are each
\* handed a generator made from random_state; np.random is neither read nor
\* advanced.  The indices are what the library answers for the array, knn and
\* that generator.
return_knn_indices_search(array, k, seed, st) ==
    [result |-> <<"nearest_neighbors", k, SeedState(seed)>>,
     draws |-> <<>>,
     state |-> st]

Steps == {"create_random_count_matrix", "return_knn_indices_random",
          "return_knn_indices_search"}

\* the call of step fn with knn k and random_state seed, the generator in st
CallStep(fn, k, seed, st) ==
    LET r == CASE fn = "create_random_count_matrix" ->
                    create_random_count_matrix(rand_matrix, seed, st)
               [] fn = "return_knn_indices_random" ->
                    return_knn_indices_random(rand_matrix, k, seed, st)
               [] OTHER ->
                    return_knn_indices_search(rand_matrix, k, seed, st)
    IN [fn |-> fn, knn |-> k, seed |-> seed, result |-> r.result,
        draws |-> r.draws, state |-> r.state]

RInit ==
    /\ np_random \in {0, 9}
    /\ rand_matrix \in UNION {Matrices(sh[1], sh[2], 0..MaxCount) : sh \in ShapesR}
    /\ run1 = NoCall
    /\ run2 = NoCall

FirstRun ==
    /\ run1 = NoCall
    /\ \E fn \in Steps, k \in {1, 2}, seed \in 0..MaxSeed :
          /\ fn = "create_random_count_matrix" => k = 1
          /\ run1' = CallStep(fn, k, seed, np_random)
          /\ np_random' = run1'.state
    /\ UNCHANGED <<rand_matrix, run2>>
    /\ FrameR

SecondRun ==
    /\ run1 # NoCall
    /\ run2 = NoCall
    /\ \E fn \in Steps, k \in {1, 2}, seed \in 0..MaxSeed :
          /\ fn = "create_random_count_matrix" => k = 1
          /\ run2' = CallStep(fn, k, seed, np_random)
          /\ np_random' = run2'.state
    /\ UNCHANGED <<rand_matrix, run1>>
    /\ FrameR

InitR == PIdle /\ CorrIdle /\ SelIdle /\ KIdle /\ RInit /\ EIdle /\ CIdle /\ MIdle

NextR == FirstRun \/ SecondRun

SpecR == InitR /\ [][NextR]_vars

Runs == {r \in {run1, run2} : r.fn # "none"}

\* C7: the matrix create_random_count_matrix returns has the shape of the
\* matrix handed in, nonnegative integer entries, and for every gene the
\* column total of the matrix handed in.
C7_ColumnTotalsPreserved ==
    \A r \in Runs : r.fn = "create_random_count_matrix" =>
        /\ Len(r.result) = Len(rand_matrix)
        /\ \A c \in 1..Len(rand_matrix) :
              /\ Len(r.result[c]) = Len(rand_matrix[1])
              /\ \A g \in 1..Len(rand_matrix[1]) : r.result[c][g] \in Nat
        /\ \A g \in 1..Len(rand_matrix[1]) :
              ColSum(r.result, g) = ColSum(rand_matrix, g)

\* C7 witness: a matrix has been randomized whose second gene has reads and
\* whose reads did not all stay where they were.
C7_Witness ==
    \E r \in Runs :
        /\ r.fn = "create_random_count_matrix"
        /\ ColSum(rand_matrix, 1) > 0
        /\ ColSum(rand_matrix, 2) > 1
        /\ r.result # rand_matrix

\* the values a run draws when its generator is one seeded with its seed
SeededDraws(r) ==
    LET n == Len(rand_matrix) IN
    CASE r.fn = "create_random_count_matrix" ->
            RandIntSeq(SeedState(r.seed), n,
                       SumSeq(n_reads_per_gene(rand_matrix))).values
      [] r.fn = "return_knn_indices_random" /\ n * r.knn > n ->
            <<RandInt(SeedState(r.seed), n, n * r.knn)>>
      [] OTHER -> <<>>

\* C8: two runs of a stochastic step on the same input with the same seed give
\* the same result from the same draws, and what a run draws is what a
\* generator seeded with the run's seed gives, whatever state earlier calls
\* left np.random in.
C8_SeededDrawsOnly ==
    /\ \A r, q \in Runs :
          (r.fn = q.fn /\ r.knn = q.knn /\ r.seed = q.seed) =>
              (r.result = q.result /\ r.draws = q.draws)
    /\ \A r \in Runs : r.draws = SeededDraws(r)

(***************************************************************************)
(* The per-gene computation: apply_convolution_read_counts (lines          *)
(* 118-149), nonnegative_fft (152-155), compute_conv_idx (158-171),        *)
(* calculate_emd (174-196), compute_convolution_and_emd (199-220).         *)
(* A distribution is kept as integer weights over their total, [num, den]: *)
(* the probability of the value k - 1 is num[k] / den.  The counts of the  *)
(* model are integers and n_divisions is 1, as get_n_divisions gives for   *)
(* them.                                                                   *)
(***************************************************************************)
FftThreshold == 7000

\* np.bincount(v): how often each of 0..max(v) occurs in v
BinCount(v) ==
    IF v = <<>> THEN <<>>
    ELSE [k \in 1..(SetMax(Range(v)) + 1) |->
             Cardinality({i \in 1..Len(v) : v[i] = k - 1})]

\* np.convolve(a, b)
Convolve(a, b) ==
    [k \in 1..(Len(a) + Len(b) - 1) |->
        SumOver({i \in 1..Len(a) : k - i + 1 \in 1..Len(b)},
                [i \in 1..Len(a) |->
                    IF k - i + 1 \in 1..Len(b) THEN a[i] * b[k - i + 1] ELSE 0])]

\* lines 152-155: the convolution by transform, negative values set to 0
nonnegative_fft(a, b) ==
    [k \in 1..(Len(a) + Len(b) - 1) |->
        IF Convolve(a, b)[k] < 0 THEN 0 ELSE Convolve(a, b)[k]]

\* the func of lines 140, 143
ConvFunc(use_fft, a, b) == IF use_fft THEN nonnegative_fft(a, b) ELSE Convolve(a, b)

\* lines 142-143: the loop "for knni in range(2, knn)", times iterations to go
RECURSIVE ConvolveLoop(_, _, _, _)
ConvolveLoop(arr_convolve, arr_base, times, use_fft) ==
    IF times <= 0 THEN arr_convolve
    ELSE ConvolveLoop(ConvFunc(use_fft, arr_convolve, arr_base), arr_base,
                      times - 1, use_fft)

\* lines 133-149.  probs holds the weights of y_probs (their total is the
\* number of cells); arr_0 is probs with the weight of 0 removed.  The
\* normalisations of lines 135 and 146 divide by the totals, which the
\* [num, den] form does at the end.
apply_convolution_read_counts(probs, k, use_fft) ==
    LET arr_0 == [i \in 1..Len(probs) |-> IF i = 1 THEN 0 ELSE probs[i]]
        first == ConvFunc(use_fft, arr_0, probs)
        arr_convolve == ConvolveLoop(first, probs, k - 2, use_fft)
    IN [x |-> [i \in 1..Len(arr_convolve) |-> i - 1],
        y |-> [num |-> arr_convolve, den |-> SumSeq(arr_convolve)]]

\* lines 163-171
compute_conv_idx(counts_gene, k) ==
    apply_convolution_read_counts(BinCount(counts_gene), k,
                                  SumSeq(counts_gene) > FftThreshold)

\* the weight of the values 0..x in the weights h
CumAt(h, x) == SumSeq(SubSeq(h, 1, Min2(x + 1, Len(h))))

\* lines 183-196 with n_divisions = 1, for a nonempty knn_counts.  With real
\* the weights of the knn counts (total m) and y_conv = num / T:
\*   emd  = sum over x of |F_real(x) - F_conv(x)|     = A / (m T)
\*   std  = sqrt(sum of y_conv (x - mean)^2)          = sqrt(V) / T
\* so emd / std = A / (m sqrt(V)); the pair <<A, m m V>> stands for it, the
\* value <<p, q>> being p / sqrt(q).
calculate_emd(knn_counts, y_conv) ==
    LET real == BinCount(knn_counts)
        m == Len(knn_counts)
        T == y_conv.den
        L == Len(y_conv.num)
        A == SumOver(0..(Max2(Len(real), L) - 2),
                     [x \in 0..(Max2(Len(real), L) - 2) |->
                         Abs(CumAt(real, x) * T - CumAt(y_conv.num, x) * m)])
        S1 == SumOver(1..L, [i \in 1..L |-> (i - 1) * y_conv.num[i]])
        S2 == SumOver(1..L, [i \in 1..L |-> (i - 1) * (i - 1) * y_conv.num[i]])
    IN <<A, m * m * (T * S2 - S1 * S1)>>

ConvolutionApplies_all_cells(counts_gene, min_knn) == Len(counts_gene) > min_knn

\* line 209: np.sum(counts_gene > 0) > min_knn
ConvolutionApplies(counts_gene, min_knn) ==
    Cardinality({i \in 1..Len(counts_gene) : counts_gene[i] > 0}) > min_knn

Raised_defaulted(e, called) ==
    [raised |-> "", x_conv |-> <<>>, y_conv |-> [num |-> <<>>, den |-> 0],
     emd |-> <<0, 0>>, called |-> called]

\* what a call that raises e leaves: no tuple, the exception
Raised(e, called) ==
    [raised |-> e, x_conv |-> <<>>, y_conv |-> [num |-> <<>>, den |-> 0],
     emd |-> <<0, 0>>, called |-> called]

\* lines 201-220 for the gene g of the matrices counts and knn_m (the code is
\* handed their transposes and takes row idx).  In the branch of line 213
\* calculate_emd raises ValueError at line 183 when no knn count is positive
\* (max of an empty array), and line 189 divides the integer array x_conv
\* (np.arange, line 149) in place by n_divisions: numpy from 1.10 on refuses
\* to store the float quotient in it and raises TypeError, earlier versions
\* store it, which for n_divisions = 1 leaves x_conv as it is.  casts tells
\* which numpy runs.
compute_convolution_and_emd(counts, knn_m, g, k, min_knn, n_divisions, casts) ==
    LET counts_gene == [i \in 1..Len(counts) |-> counts[i][g] * n_divisions]
        knn_col == [i \in 1..Len(knn_m) |-> knn_m[i][g] * n_divisions]
        knn_counts == SelectSeq(knn_col, LAMBDA v : v > 0)
    IN IF ConvolutionApplies(counts_gene, min_knn)
       THEN LET conv == compute_conv_idx(counts_gene, k) IN
            IF knn_counts = <<>>
            THEN Raised("ValueError", {"compute_conv_idx", "calculate_emd"})
            ELSE IF ~casts
            THEN Raised("TypeError", {"compute_conv_idx", "calculate_emd"})
            ELSE [raised |-> "", x_conv |-> conv.x, y_conv |-> conv.y,
                  emd |-> calculate_emd(knn_counts, conv.y),
                  called |-> {"compute_conv_idx", "calculate_emd"}]
       ELSE LET h == BinCount(knn_counts) IN
            [raised |-> "", x_conv |-> [i \in 1..Len(h) |-> i - 1],
             y_conv |-> [num |-> h, den |-> 1], emd |-> <<0, 1>>, called |-> {}]

(***************************************************************************)
(* parallel_emd_calculation (lines 223-271).                               *)
(***************************************************************************)
MaxMinKnn == 2       \* values of min_knn tried, 0..MaxMinKnn
ShapesE == {<<3, 2>>}   \* the shapes (cells, genes) tried
KnnE == {1, 2, 3}       \* the values of knn tried

\* a neighbor index matrix of k columns: the own cell, then the next cells
RingNeighbors(n, k) == [i \in 1..n |-> [c \in 1..k |-> ((i + c - 2) % n) + 1]]

n_genes == Len(array_counts[1])

\* the result of the gene g of this call
GeneOutcome(g) ==
    compute_convolution_and_emd(array_counts, array_knn_counts, g, emd_args.knn,
                                emd_args.min_knn, emd_args.n_divisions, numpy_casts)

\* what a return_objs entry holds: the tuple of line 220
Triple(o) == <<o.x_conv, o.y_conv, o.emd>>

EInit ==
    /\ array_counts \in UNION {Matrices(sh[1], sh[2], 0..MaxCount) : sh \in ShapesE}
    /\ emd_args \in [knn : KnnE, min_knn : 0..MaxMinKnn, n_divisions : {1},
                     n_procs : {1, 2}]
    /\ array_knn_counts =
          return_knn_expression(array_counts,
                                RingNeighbors(Len(array_counts), emd_args.knn))
    /\ numpy_casts \in BOOLEAN
    /\ ppc = "start"
    /\ idx_gene = 0
    /\ ray_up = FALSE
    /\ ray_handles = {}
    /\ tasks = [g \in 1..Len(array_counts[1]) |-> "none"]
    /\ task_out = [g \in 1..Len(array_counts[1]) |-> [raised |-> "none"]]
    /\ completed = <<>>
    /\ calls_made = {}
    /\ return_objs = <<>>
    /\ emd_out = [kind |-> "none"]

\* line 240: the serial branch is entered
EnterSerial ==
    /\ ppc = "start" /\ emd_args.n_procs = 1
    /\ ppc' = "serial"
    /\ idx_gene' = 1
    /\ UNCHANGED <<array_counts, array_knn_counts, emd_args, numpy_casts, ray_up,
                   ray_handles, tasks, task_out, completed, calls_made,
                   return_objs, emd_out>>
    /\ FrameE

\* lines 243-245: one turn of the list comprehension; a gene that raises ends
\* the call with its exception
SerialGene ==
    /\ ppc = "serial" /\ idx_gene <= n_genes
    /\ LET o == GeneOutcome(idx_gene) IN
          /\ calls_made' = calls_made \cup {<<idx_gene, f>> : f \in o.called}
          /\ IF o.raised # ""
             THEN /\ ppc' = "raised"
                  /\ emd_out' = [kind |-> "raised", error |-> o.raised]
                  /\ UNCHANGED <<return_objs, idx_gene>>
             ELSE /\ return_objs' = Append(return_objs, Triple(o))
                  /\ idx_gene' = idx_gene + 1
                  /\ ppc' = IF idx_gene = n_genes THEN "lists" ELSE "serial"
                  /\ UNCHANGED emd_out
    /\ UNCHANGED <<array_counts, array_knn_counts, emd_args, numpy_casts, ray_up,
                   ray_handles, tasks, task_out, completed>>
    /\ FrameE

\* lines 248-253: ray is restarted and the two matrices are put into it
RayInitPut ==
    /\ ppc = "start" /\ emd_args.n_procs # 1
    /\ ray_up' = TRUE
    /\ ray_handles' = {"array_counts_id", "array_knn_counts_id"}
    /\ ppc' = "submit"
    /\ UNCHANGED <<array_counts, array_knn_counts, emd_args, numpy_casts, idx_gene,
                   tasks, task_out, completed, calls_made, return_objs, emd_out>>
    /\ FrameE

\* lines 255-257: one remote task per gene, in the order of the genes
Submit ==
    /\ ppc = "submit"
    /\ tasks' = [g \in 1..n_genes |-> "pending"]
    /\ ppc' = "get"
    /\ UNCHANGED <<array_counts, array_knn_counts, emd_args, numpy_casts, idx_gene,
                   ray_up, ray_handles, task_out, completed, calls_made,
                   return_objs, emd_out>>
    /\ FrameE

\* a worker finishes the task of a gene: its value, or its exception, is
\* stored under the task's object id
WorkerFinish ==
    /\ \E g \in 1..n_genes :
          /\ tasks[g] = "pending"
          /\ tasks' = [tasks EXCEPT ![g] = "finished"]
          /\ task_out' = [task_out EXCEPT ![g] = GeneOutcome(g)]
          /\ completed' = Append(completed, g)
          /\ calls_made' = calls_made \cup {<<g, f>> : f \in GeneOutcome(g).called}
    /\ UNCHANGED <<array_counts, array_knn_counts, emd_args, numpy_casts, ppc,
                   idx_gene, ray_up, ray_handles, return_objs, emd_out>>
    /\ FrameE

GatherInOrder_of_completion(ids, outs, order) ==
    [i \in 1..Len(ids) |-> Triple(outs[order[i]])]

\* line 260: ray.get(ray_obj_ids) gives the values in the order of the ids
GatherInOrder(ids, outs, order) == [i \in 1..Len(ids) |-> Triple(outs[ids[i]])]

\* line 260: ray.get waits until every task has finished; it raises the
\* exception of the first task in the list that raised, and then lines 263-264
\* are not reached
RayGet ==
    /\ ppc = "get"
    /\ \A g \in 1..n_genes : tasks[g] = "finished"
    /\ IF \E g \in 1..n_genes : task_out[g].raised # ""
       THEN /\ ppc' = "raised"
            /\ emd_out' = [kind |-> "raised",
                           error |-> task_out[SetMin({g \in 1..n_genes :
                                                 task_out[g].raised # ""})].raised]
            /\ UNCHANGED return_objs
       ELSE /\ return_objs' = GatherInOrder([g \in 1..n_genes |-> g], task_out,
                                            completed)
            /\ ppc' = "teardown"
            /\ UNCHANGED emd_out
    /\ UNCHANGED <<array_counts, array_knn_counts, emd_args, numpy_casts, idx_gene,
                   ray_up, ray_handles, tasks, task_out, completed, calls_made>>
    /\ FrameE

\* line 260, a gene having raised: ray.get may raise the exception of a task
\* as soon as that task has stored it, without waiting for the tasks still
\* running (whether it does depends on the ray version); lines 263-264 are not
\* reached and the workers go on with the tasks they have
RayGetAborts ==
    /\ ppc = "get"
    /\ \E g \in 1..n_genes :
          /\ tasks[g] = "finished"
          /\ task_out[g].raised # ""
          /\ emd_out' = [kind |-> "raised", error |-> task_out[g].raised]
    /\ ppc' = "raised"
    /\ UNCHANGED <<array_counts, array_knn_counts, emd_args, numpy_casts, idx_gene,
                   ray_up, ray_handles, tasks, task_out, completed, calls_made,
                   return_objs>>
    /\ FrameE

\* lines 263-264: the handles are deleted and ray is shut down
Teardown ==
    /\ ppc = "teardown"
    /\ ray_handles' = {}
    /\ ray_up' = FALSE
    /\ ppc' = "lists"
    /\ UNCHANGED <<array_counts, array_knn_counts, emd_args, numpy_casts, idx_gene,
                   tasks, task_out, completed, calls_made, return_objs, emd_out>>
    /\ FrameE

\* lines 266-271
ReturnLists ==
    /\ ppc = "lists"
    /\ emd_out' = [kind |-> "returned",
                   list_x_conv |-> [g \in 1..Len(return_objs) |-> return_objs[g][1]],
                   list_y_conv |-> [g \in 1..Len(return_objs) |-> return_objs[g][2]],
                   list_emd |-> [g \in 1..Len(return_objs) |-> return_objs[g][3]]]
    /\ ppc' = "returned"
    /\ UNCHANGED <<array_counts, array_knn_counts, emd_args, numpy_casts, idx_gene,
                   ray_up, ray_handles, tasks, task_out, completed, calls_made,
                   return_objs>>
    /\ FrameE

InitE == PIdle /\ CorrIdle /\ SelIdle /\ KIdle /\ RIdle /\ EInit /\ CIdle /\ MIdle

NextE == EnterSerial \/ SerialGene \/ RayInitPut \/ Submit \/ WorkerFinish
         \/ RayGet \/ RayGetAborts \/ Teardown \/ ReturnLists

SpecE == InitE /\ [][NextE]_vars

\* C4: the g-th entry of each list returned is the result of
\* compute_convolution_and_emd for the gene g, in the serial mode and in the
\* pool mode, in whatever order the workers finished.
C4_ResultsInGeneOrder ==
    ppc = "returned" =>
        /\ Len(emd_out.list_x_conv) = n_genes
        /\ Len(emd_out.list_y_conv) = n_genes
        /\ Len(emd_out.list_emd) = n_genes
        /\ \A g \in 1..n_genes :
              /\ emd_out.list_x_conv[g] = GeneOutcome(g).x_conv
              /\ emd_out.list_y_conv[g] = GeneOutcome(g).y_conv
              /\ emd_out.list_emd[g] = GeneOutcome(g).emd

\* C4 witness: the pool mode has returned after the task of the second gene
\* finished before that of the first, the two genes having different results,
\* one of them from a convolution.
C4_Witness ==
    /\ ppc = "returned"
    /\ emd_args.n_procs = 2
    /\ completed = <<2, 1>>
    /\ Triple(GeneOutcome(1)) # Triple(GeneOutcome(2))
    /\ \E g \in 1..n_genes : <<g, "calculate_emd">> \in calls_made

\* the knn-aggregated counts of the gene g that are positive, in cell order
PositiveKnnCounts(g) ==
    SelectSeq([i \in 1..Len(array_knn_counts) |-> array_knn_counts[i][g]],
              LAMBDA v : v > 0)

\* what the claim says is returned for a gene below min_knn: the raw histogram
\* of its positive knn counts over 0..max, and the distance 0
SkippedResult(g) ==
    <<[i \in 1..Len(BinCount(PositiveKnnCounts(g))) |-> i - 1],
      [num |-> BinCount(PositiveKnnCounts(g)), den |-> 1],
      <<0, 1>>>>

\* C5: for a gene with fewer than min_knn cells of positive knn-aggregated
\* expression no convolution and no EMD computation is made, and its result,
\* wherever it is held, is the distance 0 with the raw histogram of its
\* positive knn counts.
C5_BelowMinKnnSkipped ==
    \A g \in 1..Len(tasks) :
        Len(PositiveKnnCounts(g)) < emd_args.min_knn =>
            /\ \A f \in {"compute_conv_idx", "calculate_emd"} : <<g, f>> \notin calls_made
            /\ tasks[g] = "finished" =>
                  task_out[g].raised = "" /\ Triple(task_out[g]) = SkippedResult(g)
            /\ Len(return_objs) >= g => return_objs[g] = SkippedResult(g)
            /\ ppc = "returned" =>
                  /\ emd_out.list_x_conv[g] = SkippedResult(g)[1]
                  /\ emd_out.list_y_conv[g] = SkippedResult(g)[2]
                  /\ emd_out.list_emd[g] = <<0, 1>>

\* C5 witness: a call has returned for a gene that has positive knn counts but
\* fewer than min_knn, next to a gene whose distance came from a convolution.
C5_Witness ==
    /\ ppc = "returned"
    /\ \E g, h \in 1..n_genes :
          /\ Len(PositiveKnnCounts(g)) > 0
          /\ Len(PositiveKnnCounts(g)) < emd_args.min_knn
          /\ emd_out.list_emd[g] = <<0, 1>>
          /\ <<h, "calculate_emd">> \in calls_made
          /\ emd_out.list_emd[h][1] > 0

(***************************************************************************)
(* compute_conv_idx (lines 158-171) and apply_convolution_read_counts      *)
(* (lines 118-149) called on the count vector of one gene.  Line 209 lets  *)
(* the call happen only for a gene with a positive count.                  *)
(***************************************************************************)
MaxCellsC == 3       \* cells of the count vector, 1..MaxCellsC
MaxCountC == 2       \* counts tried, 0..MaxCountC
MaxKnnC == 3         \* values of knn tried, 1..MaxKnnC

ConvInit ==
    /\ conv_counts \in {v \in UNION {Arrays(n, 0..MaxCountC) : n \in 1..MaxCellsC} :
                           \E i \in 1..Len(v) : v[i] > 0}
    /\ conv_knn \in 1..MaxKnnC
    /\ conv_out = NoConv

\* line 213: x_conv, y_conv, y_probs = compute_conv_idx(counts_gene, knn)
ComputeConvIdx ==
    /\ conv_out = NoConv
    /\ conv_out' = compute_conv_idx(conv_counts, conv_knn)
    /\ UNCHANGED <<conv_counts, conv_knn>>
    /\ FrameC

InitConv == PIdle /\ CorrIdle /\ SelIdle /\ KIdle /\ RIdle /\ EIdle /\ ConvInit /\ MIdle

NextConv == ComputeConvIdx

SpecConv == InitConv /\ [][NextConv]_vars

\* the ways to draw k cells one after the other, the first among the cells
\* with a positive count, every other among all cells
DrawsOf(counts, k) == {d \in [1..k -> 1..Len(counts)] : counts[d[1]] > 0}

\* the total of the counts of the cells drawn
DrawTotal(counts, d) == SumSeq([j \in 1..Len(d) |-> counts[d[j]]])

\* C11: the support returned is 0..knn*max_count and the probability of every
\* value v of it is the share of the draws of exactly knn cells (the first with
\* a positive count) whose counts total v; the probabilities are nonnegative
\* and sum to 1.
C11_ConvolutionIsKFoldSum ==
    conv_out # NoConv =>
        LET top == conv_knn * SetMax(Range(conv_counts))
            draws == DrawsOf(conv_counts, conv_knn)
        IN /\ conv_out.x = [i \in 1..(top + 1) |-> i - 1]
           /\ Len(conv_out.y.num) = top + 1
           /\ conv_out.y.den > 0
           /\ SumSeq(conv_out.y.num) = conv_out.y.den
           /\ \A v \in 0..top :
                 /\ conv_out.y.num[v + 1] >= 0
                 /\ conv_out.y.num[v + 1] * Cardinality(draws) =
                       conv_out.y.den *
                          Cardinality({d \in draws : DrawTotal(conv_counts, d) = v})

(***************************************************************************)
(* return_knn_indices with return_random true (lines 38-53), as called in  *)
(* SpecR.                                                                  *)
(***************************************************************************)
\* the exceptions a call of return_knn_indices ends with
KnnIndicesErrors == {"ValueError", "AttributeError"}

\* C12: a call of return_knn_indices in random-fallback mode returns a matrix
\* with one row per cell, the row of cell i starting with i and holding only
\* cell indices (1..n_cells here, 0..n_cells-1 in the code).
C12_RandomRowsWellFormed ==
    \A r \in Runs : r.fn = "return_knn_indices_random" =>
        /\ r.result \notin KnnIndicesErrors
        /\ Len(r.result) = Len(rand_matrix)
        /\ \A i \in 1..Len(rand_matrix) :
              /\ Len(r.result[i]) = r.knn
              /\ r.result[i][1] = i
              /\ \A c \in 1..r.knn : r.result[i][c] \in 1..Len(rand_matrix)

(***************************************************************************)
(* parallel_emd_calculation with n_procs # 1 (lines 247-271): collection   *)
(* and teardown.                                                           *)
(***************************************************************************)
PoolMode == ppc # "idle" /\ emd_args.n_procs # 1

\* the computation of the gene g raises: its convolution is made (line 209)
\* and calculate_emd fails on it, at line 183 or at line 189
GeneRaises(g) ==
    /\ Cardinality({i \in 1..Len(array_counts) : array_counts[i][g] > 0})
          > emd_args.min_knn
    /\ (PositiveKnnCounts(g) = <<>> \/ ~numpy_casts)

AllTasksFinished == \A g \in 1..n_genes : tasks[g] = "finished"

\* some step of the pool mode call, or of a worker, can be taken
PoolCanStep ==
    \/ ppc \in {"start", "submit", "teardown", "lists"}
    \/ ppc = "get" /\ (AllTasksFinished \/ \E g \in 1..n_genes : tasks[g] = "pending")

\* C13: in pool mode return_objs holds nothing until every task has finished,
\* and then a result for every gene; when the computation of some gene raises
\* the call never returns lists: it ends raising that exception, no result
\* having been read; and the call is never stuck before it has returned a
\* result for every gene or raised.
C13_AllOrNothing ==
    PoolMode =>
        /\ return_objs # <<>> =>
              /\ AllTasksFinished
              /\ Len(return_objs) = n_genes
              /\ \A g \in 1..n_genes : return_objs[g] = Triple(task_out[g])
        /\ ppc = "returned" =>
              /\ AllTasksFinished
              /\ Len(emd_out.list_emd) = n_genes
              /\ \A g \in 1..n_genes : ~GeneRaises(g)
        /\ (\E g \in 1..n_genes : GeneRaises(g)) =>
              /\ ppc \notin {"teardown", "lists", "returned"}
              /\ return_objs = <<>>
              /\ emd_out.kind # "returned"
        /\ ppc = "raised" =>
              /\ return_objs = <<>>
              /\ emd_out.kind = "raised"
              /\ \E g \in 1..n_genes :
                    /\ GeneRaises(g)
                    /\ tasks[g] = "finished"
                    /\ emd_out.error = task_out[g].raised
        /\ (ppc \notin {"returned", "raised"}) => PoolCanStep

\* C13 witness: the pool mode call has raised the exception of one gene after
\* the task of another gene had finished with a result.
C13_Witness ==
    /\ PoolMode
    /\ ppc = "raised"
    /\ emd_out.kind = "raised"
    /\ \E g, h \in 1..n_genes :
          /\ tasks[g] = "finished" /\ task_out[g].raised = ""
          /\ tasks[h] = "finished" /\ task_out[h].raised # ""

\* C14: in pool mode, when control is back with the caller (lists returned or
\* an exception raised) the shared matrix handles have been released and ray
\* has been shut down.
C14_TeardownOnEveryExit ==
    (PoolMode /\ ppc \in {"returned", "raised"}) =>
        /\ ray_handles = {}
        /\ ~ray_up

(***************************************************************************)
(* subtract_median (lines 274-292).  x holds the mean expression of every  *)
(* gene, y its distance.  The means of the model are the integers of       *)
(* MeanValues.  The window edges are linspace[i] = 10 ** (log10(lo) +      *)
(* i (log10(hi) - log10(lo)) / n_windows), lo and hi the least and the     *)
(* largest mean, so x against linspace[i] is x^n against lo^(n-i) hi^i,    *)
(* which is decided on integers unless the two are equal.  When they are   *)
(* equal the edge is the double 10 ** log10(x), which need not be x: in    *)
(* IEEE double arithmetic with the C library 10 ** log10(5) is             *)
(* 5.000000000000001 and 10 ** log10(8) is 7.999999999999999, while 1, 10  *)
(* and 100 come back exactly (the exponents 0, 1, 2 are exact, also as     *)
(* interior points of the linspace from 0 to 2).  Medians and the values   *)
(* returned are kept doubled, the median of an even number of values being *)
(* the half of an integer.                                                 *)
(***************************************************************************)
MaxY == 2            \* distances tried, 0..MaxY
MaxWindows == 3      \* values of n_windows tried, 1..MaxWindows
MeanValues == {1, 5, 8, 10, 100}   \* the mean expressions tried
GenesM == {1, 2, 3}                \* the numbers of genes tried

RECURSIVE Pow(_, _)
Pow(a, b) == IF b = 0 THEN 1 ELSE a * Pow(a, b - 1)

\* line 281: the sign of 10 ** np.log10(v) - v in double arithmetic
Pow10Log10(v) == CASE v = 5 -> 1 [] v = 8 -> -1 [] OTHER -> 0

\* line 281: the sign of x[g] - linspace[i], i = 0..n
EdgeCmp(x, g, i, n) ==
    LET lo == SetMin(Range(x))
        hi == SetMax(Range(x))
        l == Pow(x[g], n)
        r == Pow(lo, n - i) * Pow(hi, i)
    IN IF l > r THEN 1 ELSE IF l < r THEN -1 ELSE 0 - Pow10Log10(x[g])

\* line 286 in turn i - 1 of the loop: the genes of the mask
\* (x >= linspace[i - 1]) & (x <= linspace[i])
WindowMask(x, i, n) ==
    {g \in 1..Len(x) : EdgeCmp(x, g, i - 1, n) >= 0 /\ EdgeCmp(x, g, i, n) <= 0}

\* y[mask]: the values of the genes of the mask, in gene order
Masked(y, mask) ==
    LET idx == SelectSeq([g \in 1..Len(y) |-> g], LAMBDA g : g \in mask)
    IN [k \in 1..Len(idx) |-> y[idx[k]]]

\* np.median of a nonempty array, doubled
Median2(v) ==
    LET sv == SortArr(v)
        m == Len(v)
    IN IF m % 2 = 1 THEN 2 * sv[(m + 1) \div 2]
       ELSE sv[m \div 2] + sv[(m \div 2) + 1]

\* lines 284-287: y_median_array (doubled) after the turns 0..i-1 of the loop;
\* a turn with an empty mask assigns nothing
RECURSIVE MedianArray(_, _, _, _)
MedianArray(x, y, n, i) ==
    IF i = 0 THEN [g \in 1..Len(y) |-> 0]
    ELSE LET prev == MedianArray(x, y, n, i - 1)
             mask == WindowMask(x, i, n)
         IN [g \in 1..Len(y) |->
                IF g \in mask THEN Median2(Masked(y, mask)) ELSE prev[g]]

\* lines 281-292, the array returned doubled
subtract_median(x, y, n) ==
    [g \in 1..Len(y) |-> 2 * y[g] - MedianArray(x, y, n, n)[g]]

MedInit ==
    /\ med_x \in UNION {Arrays(ng, MeanValues) : ng \in GenesM}
    /\ med_y \in Arrays(Len(med_x), 0..MaxY)
    /\ n_windows \in 1..MaxWindows
    /\ y_median_array = NoArray
    /\ med_bins = NoArray
    /\ y_adjust = NoArray

\* triku.py line 181: subtract_median(x=mean_counts, y=array_emd_corrected,
\* n_windows=n_windows)
SubtractMedian ==
    /\ y_adjust = NoArray
    /\ y_median_array' = MedianArray(med_x, med_y, n_windows, n_windows)
    /\ med_bins' = [g \in 1..Len(med_x) |->
                      {i \in 1..n_windows : g \in WindowMask(med_x, i, n_windows)}]
    /\ y_adjust' = subtract_median(med_x, med_y, n_windows)
    /\ UNCHANGED <<med_x, med_y, n_windows>>
    /\ FrameM

InitMed == PIdle /\ CorrIdle /\ SelIdle /\ KIdle /\ RIdle /\ EIdle /\ CIdle /\ MedInit

NextMed == SubtractMedian

SpecMed == InitMed /\ [][NextMed]_vars

\* the genes of bin i = 1..n of the claim: the range of the means cut into n
\* bins of equal width in log-space, each closed on both ends
ClosedBin(x, i, n) ==
    LET lo == SetMin(Range(x))
        hi == SetMax(Range(x))
    IN {g \in 1..Len(x) :
          /\ Pow(x[g], n) >= Pow(lo, n - i + 1) * Pow(hi, i - 1)
          /\ Pow(x[g], n) <= Pow(lo, n - i) * Pow(hi, i)}

\* the genes on the edge shared by the bins i and i + 1
OnSharedEdge(x, i, n) == ClosedBin(x, i, n) \cap ClosedBin(x, i + 1, n)

\* C15: every gene lies in a bin; what is subtracted from its distance, once,
\* is the median of a closed bin that contains it; a gene on the edge shared
\* by the bins i and i+1 is in the median computation of both and has the
\* median of bin i+1 subtracted.
C15_MedianOfContainingBin ==
    y_adjust # NoArray =>
        /\ \A g \in 1..Len(med_x) :
              /\ med_bins[g] # {}
              /\ \E i \in 1..n_windows :
                    /\ g \in ClosedBin(med_x, i, n_windows)
                    /\ y_median_array[g] =
                          Median2(Masked(med_y, ClosedBin(med_x, i, n_windows)))
              /\ y_adjust[g] = 2 * med_y[g] - y_median_array[g]
        /\ \A i \in 1..(n_windows - 1) :
              \A g \in OnSharedEdge(med_x, i, n_windows) :
                 /\ {i, i + 1} \subseteq med_bins[g]
                 /\ y_median_array[g] =
                       Median2(Masked(med_y, ClosedBin(med_x, i + 1, n_windows)))

(***************************************************************************)
(* get_cutoff_curve, lines 307-317: the reference line, as called in       *)
(* SpecSel.                                                                *)
(***************************************************************************)
\* C16: once get_cutoff_curve has run on an array of at least two distances,
\* the first and the last point of the sorted curve both have squared
\* distance 0 to the reference line.
C16_LineThroughBothEndpoints ==
    (sel_pc # "cutoff" /\ n_features = None /\ Len(array_emd_subt_median) >= 2) =>
        /\ list_d(array_emd_subt_median)[1] = 0
        /\ list_d(array_emd_subt_median)[Len(array_emd_subt_median)] = 0

====
